---- MODULE Spec2Model ----
(***************************************************************************)
(* Bridge Service (review-session orchestration): the Redis session store, *)
(* the Express handlers submit / status / report / fix / delete, the       *)
(* background driver processReview with its Council and Sandbox calls, and *)
(* the Socket.IO progress channel.                                         *)
(*                                                                         *)
(* Node runs each handler and the driver as a chain of continuations: the  *)
(* code between two awaits is atomic, and every await (a Redis command, an *)
(* HTTP call to a collaborator) is a point where the other chains may run. *)
(* Each action below is one such step.                                     *)
(***************************************************************************)
EXTENDS Integers, Sequences, FiniteSets, TLC

\* ---------------------------------------------------------------- bounds
\* Session ids uuidv4() hands out: each valid Submit takes a fresh one, and
\* clients send Submit requests while one is left.
SessionIds == {"rev-1"}

\* An id no Submit ever returned, as a client may put in a URL.
UnknownIds == {"rev-0"}

\* Socket.IO connections; a client that reconnects gets a new socket.
Sockets == {"a", "b"}

\* The clock advances in ticks of TickSeconds seconds, at most MaxTicks times.
MaxTicks == 2
TickSeconds == 1800

\* Fix requests that may be waiting for the Council at the same time.
MaxFixInFlight == 1

\* Ids the reviews table hands out (its rows are numbered from 1), and an
\* id that names no review.
NewReviewIds == {1}
UnknownReviewIds == {2}

\* Call slots of review.simulateProgress: the calls made in all, which may run
\* one after the other or at the same time.
SimCalls == {1, 2}

\* ------------------------------------------------------ program constants
\* redis.set(..., 'EX', 3600)
EX == 3600

\* Default quality_gates of the submit handler.
DefaultGates == <<"qa", "security", "performance">>

\* Request bodies of Submit (a field that is left out is absent from the record).
SubmitBodies ==
  { [code |-> ""],
    [quality_gates |-> <<"qa">>],
    [code |-> "code"],
    [code |-> "code", quality_gates |-> <<"qa">>],
    [code |-> "code", quality_gates |-> <<>>] }

\* Responses the Council can give to /council/review.
Report1 == [priority_fixes |-> <<[severity |-> "critical"], [severity |-> "low"]>>]
AgentsFor(gates) == [i \in 1..Len(gates) |-> [name |-> gates[i], status |-> "completed", score |-> 80]]
CouncilResponses(gates) ==
  { [report |-> Report1, agents |-> AgentsFor(gates)],
    [report |-> Report1, agents |-> AgentsFor(gates), test_code |-> "tests"],
    [test_code |-> ""] }

\* Request bodies of fix: fix_priorities left out, or given.
FixBodies == { [session |-> "any"], [fix_priorities |-> <<"low">>] }
DefaultFixPriorities == <<"critical", "high">>

\* axios failures of a collaborator call: the timeout and an unreachable host.
TransportErrors == {"timeout", "ECONNREFUSED"}

\* Results /sandbox/{id}/execute can return when the call itself succeeds.
ExecResults == {[outcome |-> "tests_passed"], [outcome |-> "tests_failed"]}

VARIABLES
  now,        \* the wall clock, in ticks
  store,      \* Redis: key session:<id> -> the parsed JSON value
  expireAt,   \* Redis: key -> the time, in seconds, at which the key expires
  writes,     \* per id: status and progress of every value Redis was given, in order
  nextIds,    \* session ids uuidv4() has not handed out yet
  sub,        \* per id: how far the Submit request that created it has got
  pc,         \* per id: the await processReview is suspended at
  rd,         \* per id: the session updateSession read and has not yet saved
  session,    \* per id: the session processReview read when it started
  cr,         \* per id: councilResponse, once the Council has answered
  testResult, \* per id: the answer of /sandbox/{id}/execute
  err,        \* per id: the error processReview's catch block caught
  sbLog,      \* per id: the Sandbox calls made, in order, with their outcome
  published,  \* per id: the events emitted to the room, in order
  deleted,    \* session ids for which a Delete request has been answered
  fix,        \* fix requests waiting for /council/fix
  resp,       \* the HTTP response sent in the step that led here, if any
  conn,       \* per socket: "new", "open" (connected) or "closed"
  rooms,      \* per id: the sockets that have joined the room of that name
  delivered,  \* per socket: the events sent to it, in order, with their room
  audience,   \* per id: for every published event, who was in the room then
  reviews,      \* tRPC router, table reviews: row i is the review with id i
  agentResults, \* table agentResults: row i is the agent result with id i
  findings,     \* table findings: per agent result id, the number of its rows
  submits,      \* per review id: the review.submit call that created it
  sims,         \* per call slot: the review.simulateProgress call in it
  gets          \* the review.getById call in flight, if any

vars == <<now, store, expireAt, writes, nextIds, sub, pc, rd, session, cr, testResult,
          err, sbLog, published, deleted, fix, resp, conn, rooms, delivered,
          audience, reviews, agentResults, findings, submits, sims, gets>>

\* The tables and calls of the tRPC review router, which shares nothing with
\* the bridge service.
routerVars == <<reviews, agentResults, findings, submits, sims, gets>>
RouterUnchanged == UNCHANGED routerVars

\* ------------------------------------------------------------- helpers
\* f with key k set to v / without key k.
Put(f, k, v) == [x \in (DOMAIN f) \cup {k} |-> IF x = k THEN v ELSE f[x]]
Del(f, k) == [x \in (DOMAIN f) \ {k} |-> f[x]]

\* Object spread { ...a, ...b }.
Spread(a, b) == [k \in (DOMAIN a) \cup (DOMAIN b) |-> IF k \in DOMAIN b THEN b[k] ELSE a[k]]

Has(obj, k) == k \in DOMAIN obj

\* JavaScript truthiness of the string property obj[k]: a missing property
\* and "" are falsy.
Truthy(obj, k) == IF Has(obj, k) THEN obj[k] # "" ELSE FALSE

NoResp == [op |-> "none"]

Init ==
  /\ now = 0
  /\ store = [x \in {} |-> 0]
  /\ expireAt = [x \in {} |-> 0]
  /\ writes = [s \in SessionIds |-> <<>>]
  /\ nextIds = SessionIds
  /\ sub = [s \in SessionIds |-> "none"]
  /\ pc = [s \in SessionIds |-> "idle"]
  /\ rd = [x \in {} |-> 0]
  /\ session = [x \in {} |-> 0]
  /\ cr = [x \in {} |-> 0]
  /\ testResult = [x \in {} |-> 0]
  /\ err = [s \in SessionIds |-> ""]
  /\ sbLog = [s \in SessionIds |-> <<>>]
  /\ published = [s \in SessionIds |-> <<>>]
  /\ deleted = {}
  /\ fix = {}
  /\ resp = NoResp
  /\ conn = [k \in Sockets |-> "new"]
  /\ rooms = [s \in SessionIds |-> {}]
  /\ delivered = [k \in Sockets |-> <<>>]
  /\ audience = [s \in SessionIds |-> <<>>]
  /\ reviews = <<>>
  /\ agentResults = <<>>
  /\ findings = <<>>
  /\ submits = <<>>
  /\ sims = [k \in SimCalls |-> [pc |-> "idle"]]
  /\ gets = [pc |-> "idle"]

\* ------------------------------------------------------- session store
\* Variant: a write to an existing key keeps the expiry the key has (KEEPTTL).
saveSession_KeepTTL(id, sess) ==
  /\ store' = Put(store, id, sess)
  /\ expireAt' = IF id \in DOMAIN expireAt THEN expireAt
                 ELSE Put(expireAt, id, now * TickSeconds + EX)
  /\ writes' = [writes EXCEPT ![id] = Append(@, [status |-> sess.status, progress |-> sess.progress])]

\* redis.set(key, JSON.stringify(session), 'EX', 3600): the effect on Redis.
saveSession(id, sess) ==
  /\ store' = Put(store, id, sess)
  /\ expireAt' = Put(expireAt, id, now * TickSeconds + EX)
  /\ writes' = [writes EXCEPT ![id] = Append(@, [status |-> sess.status, progress |-> sess.progress])]

\* redis.get: is the key there (a missing key parses to null).
Found(id) == id \in DOMAIN store

\* Time passes; Redis drops the keys whose expiry has been reached.
Tick ==
  /\ now < MaxTicks
  /\ now' = now + 1
  /\ LET live == {k \in DOMAIN store : expireAt[k] > (now + 1) * TickSeconds}
     IN /\ store' = [k \in live |-> store[k]]
        /\ expireAt' = [k \in live |-> expireAt[k]]
  /\ resp' = NoResp
  /\ UNCHANGED <<writes, nextIds, sub, pc, rd, session, cr, testResult, err,
                 sbLog, published, delivered, audience,
                 conn, rooms, deleted, fix>>
  /\ RouterUnchanged

\* ------------------------------------------------------------ handlers
\* Variant: the session is created as already under analysis.
NewSession_Analyzing(id, body) ==
  [id |-> id, code |-> body.code,
   quality_gates |-> IF Has(body, "quality_gates") THEN body.quality_gates ELSE DefaultGates,
   status |-> "analyzing", progress |-> 10, agents |-> <<>>,
   created_at |-> now, updated_at |-> now]

\* The session object the submit handler builds.
NewSession(id, body) ==
  [id |-> id, code |-> body.code,
   quality_gates |-> IF Has(body, "quality_gates") THEN body.quality_gates ELSE DefaultGates,
   status |-> "pending", progress |-> 0, agents |-> <<>>,
   created_at |-> now, updated_at |-> now]

\* The ids a client puts in a URL: one Submit has answered with, or one that
\* names no session.  What a handler does with an unknown id depends on
\* nothing else, so those requests are made before the first Submit only.
Addressable(s) ==
  IF s \in UnknownIds THEN nextIds = SessionIds ELSE sub[s] \in {"responded", "known"}

\* The caller of Submit has made its next request for s.
Touch(s) ==
  sub' = [x \in SessionIds |-> IF x = s /\ sub[x] = "responded" THEN "known" ELSE sub[x]]

\* Variant: the body is validated after the session has been saved.
SubmitInvalid_ValidatesAfterSave ==
  /\ nextIds # {}
  /\ \E body \in SubmitBodies : \E s \in nextIds :
       /\ ~Truthy(body, "code")
       /\ saveSession(s, NewSession(s, Spread(body, [code |-> ""])))
       /\ nextIds' = nextIds \ {s}
       /\ resp' = [op |-> "submit", http |-> 400, error |-> "Code is required"]
  /\ UNCHANGED <<now, sub, pc, rd, session, cr, testResult, err, sbLog, published,
                 delivered, audience, conn, rooms, deleted, fix>>
  /\ RouterUnchanged

\* POST /submit with a body that fails validation.
SubmitInvalid ==
  /\ nextIds # {}
  /\ \E body \in SubmitBodies :
       /\ ~Truthy(body, "code")
       /\ resp' = [op |-> "submit", http |-> 400, error |-> "Code is required"]
  /\ UNCHANGED <<now, store, expireAt, writes, nextIds, sub, pc, rd, session, cr,
                 testResult, err, sbLog, published, delivered, audience,
                 conn, rooms, deleted, fix>>
  /\ RouterUnchanged

\* POST /submit, up to the await of saveSession.
Submit(s) ==
  /\ s \in nextIds
  /\ \E body \in SubmitBodies :
       /\ Truthy(body, "code")
       /\ saveSession(s, NewSession(s, body))
  /\ nextIds' = nextIds \ {s}
  /\ sub' = [sub EXCEPT ![s] = "saved"]
  /\ resp' = NoResp
  /\ UNCHANGED <<now, pc, rd, session, cr, testResult, err, sbLog, published, delivered, audience,
                 conn, rooms,
                 deleted, fix>>
  /\ RouterUnchanged

\* POST /submit after saveSession: processReview is started (it runs up to its
\* first await) and the response is sent.
SubmitRespond(s) ==
  /\ sub[s] = "saved"
  /\ sub' = [sub EXCEPT ![s] = "responded"]
  /\ pc' = [pc EXCEPT ![s] = "getSession"]
  /\ resp' = [op |-> "submit", http |-> 200, sid |-> s, status |-> "pending"]
  /\ UNCHANGED <<now, store, expireAt, writes, nextIds, rd, session, cr, testResult,
                 err, sbLog, published, delivered, audience,
                 conn, rooms, deleted, fix>>
  /\ RouterUnchanged

NotFound(op, s) == [op |-> op, http |-> 404, sid |-> s, error |-> "Session not found"]

\* agents.map(agent => ({ name, status, score }))
AgentView(agents) ==
  [i \in 1..Len(agents) |->
     [name |-> agents[i].name, status |-> agents[i].status, score |-> agents[i].score]]

StatusResponse(s) ==
  IF ~Found(s) THEN NotFound("status", s)
  ELSE [op |-> "status", http |-> 200, sid |-> s, status |-> store[s].status,
        progress |-> store[s].progress, agents |-> AgentView(store[s].agents)]

\* GET /:sessionId/status
GetStatus(s) ==
  /\ Addressable(s)
  /\ resp' = StatusResponse(s)
  /\ Touch(s)
  /\ UNCHANGED <<now, store, expireAt, writes, nextIds, pc, rd, session, cr, testResult,
                 err, sbLog, published, delivered, audience,
                 conn, rooms, deleted, fix>>
  /\ RouterUnchanged

\* Variant: the handler tests the report, as the fix handler does, not the status.
ReportResponse_ByReport(s) ==
  IF ~Found(s) THEN NotFound("report", s)
  ELSE IF ~Has(store[s], "report")
       THEN [op |-> "report", http |-> 400, sid |-> s, error |-> "Review not completed yet"]
       ELSE [op |-> "report", http |-> 200, sid |-> s, report |-> store[s].report]

ReportResponse(s) ==
  IF ~Found(s) THEN NotFound("report", s)
  ELSE IF store[s].status # "completed"
       THEN [op |-> "report", http |-> 400, sid |-> s, error |-> "Review not completed yet"]
       ELSE IF Has(store[s], "report")
            THEN [op |-> "report", http |-> 200, sid |-> s, report |-> store[s].report]
            ELSE [op |-> "report", http |-> 200, sid |-> s]

\* GET /:sessionId/report
GetReport(s) ==
  /\ Addressable(s)
  /\ resp' = ReportResponse(s)
  /\ Touch(s)
  /\ UNCHANGED <<now, store, expireAt, writes, nextIds, pc, rd, session, cr, testResult,
                 err, sbLog, published, delivered, audience,
                 conn, rooms, deleted, fix>>
  /\ RouterUnchanged

\* Variant: deleting a key that is not there is answered with not found.
Delete_NotFoundWhenAbsent(s) ==
  /\ Addressable(s)
  /\ store' = Del(store, s)
  /\ expireAt' = Del(expireAt, s)
  /\ deleted' = deleted \cup ({s} \cap SessionIds)
  /\ resp' = IF Found(s)
             THEN [op |-> "delete", http |-> 200, sid |-> s, message |-> "Session deleted"]
             ELSE NotFound("delete", s)
  /\ Touch(s)
  /\ UNCHANGED <<now, writes, nextIds, pc, rd, session, cr, testResult, err,
                 sbLog, published, delivered, audience,
                 conn, rooms, fix>>
  /\ RouterUnchanged

\* DELETE /:sessionId
Delete(s) ==
  /\ Addressable(s)
  /\ store' = Del(store, s)
  /\ expireAt' = Del(expireAt, s)
  /\ deleted' = deleted \cup ({s} \cap SessionIds)
  /\ resp' = [op |-> "delete", http |-> 200, sid |-> s, message |-> "Session deleted"]
  /\ Touch(s)
  /\ UNCHANGED <<now, writes, nextIds, pc, rd, session, cr, testResult, err,
                 sbLog, published, delivered, audience,
                 conn, rooms, fix>>
  /\ RouterUnchanged

Range(seq) == {seq[i] : i \in 1..Len(seq)}

\* Variant: every priority fix of the report is forwarded.
FilterFixes_All(fixes, priorities) == fixes

\* session.report.priority_fixes.filter(f => fix_priorities.includes(f.severity))
FilterFixes(fixes, priorities) ==
  LET keep(f) == f.severity \in Range(priorities)
  IN SelectSeq(fixes, keep)

\* new Error(`Council service error: ${error.message}`) of callCouncil
CouncilError(e) ==
  IF e = "timeout" THEN "Council service error: timeout of 120000ms exceeded"
  ELSE "Council service error: connect ECONNREFUSED"

\* new Error(`Sandbox service error: ${error.message}`) of callSandbox
SandboxError(e) ==
  IF e = "timeout" THEN "Sandbox service error: timeout of 180000ms exceeded"
  ELSE "Sandbox service error: connect ECONNREFUSED"

\* POST /:sessionId/fix, up to the await of callCouncil('/council/fix').  The
\* request on its way to the Council is kept with the priorities asked for.
FixBegin(s) ==
  /\ Addressable(s)
  /\ Touch(s)
  /\ \E body \in FixBodies :
       LET priorities == IF Has(body, "fix_priorities") THEN body.fix_priorities
                         ELSE DefaultFixPriorities
       IN IF ~Found(s)
          THEN resp' = NotFound("fix", s) /\ fix' = fix
          ELSE IF ~Has(store[s], "report")
          THEN /\ resp' = [op |-> "fix", http |-> 400, sid |-> s, error |-> "No report available"]
               /\ fix' = fix
          ELSE IF ~Has(store[s].report, "priority_fixes")
          THEN /\ resp' = [op |-> "fix", http |-> 500, sid |-> s, error |-> "TypeError"]
               /\ fix' = fix
          ELSE /\ Cardinality(fix) < MaxFixInFlight
               /\ fix' = fix \cup {[sid |-> s, code |-> store[s].code, asked |-> priorities,
                                     findings |-> FilterFixes(store[s].report.priority_fixes, priorities)]}
               /\ resp' = NoResp
  /\ UNCHANGED <<now, store, expireAt, writes, nextIds, pc, rd, session, cr, testResult,
                 err, sbLog, published, delivered, audience,
                 conn, rooms, deleted>>
  /\ RouterUnchanged

\* POST /:sessionId/fix after the Council has answered, or failed to.
FixEnd ==
  /\ \E f \in fix :
       /\ fix' = fix \ {f}
       /\ \/ resp' = [op |-> "fix", http |-> 200, sid |-> f.sid, fixed |-> f.findings]
          \/ \E e \in TransportErrors :
               resp' = [op |-> "fix", http |-> 500, sid |-> f.sid, error |-> CouncilError(e)]
  /\ UNCHANGED <<now, store, expireAt, writes, nextIds, sub, pc, rd, session, cr,
                 testResult, err, sbLog, published, delivered, audience,
                 conn, rooms, deleted>>
  /\ RouterUnchanged

\* --------------------------------------------------------- processReview
DriverVarsUnchanged ==
  /\ resp' = NoResp /\ UNCHANGED <<now, nextIds, sub, deleted, fix, conn, rooms>>
  /\ RouterUnchanged

\* io.to(sessionId).emit(type, payload)
\* Variant: the event goes to every connected socket (io.emit).
Recipients_Broadcast(s) == {k \in Sockets : conn[k] = "open"}

\* Variant: the event goes to one socket of the room only.
Recipients_OneSocket(s) == IF rooms[s] = {} THEN {} ELSE {CHOOSE k \in rooms[s] : TRUE}

\* io.to(sessionId): the sockets that are in the room now.
Recipients(s) == rooms[s]

\* io.to(sessionId).emit(type, payload), once per event, in order.
Emit(s, events) ==
  /\ published' = [published EXCEPT ![s] = @ \o events]
  /\ delivered' = [k \in Sockets |->
                     IF k \in Recipients(s)
                     THEN delivered[k] \o [i \in 1..Len(events) |-> [room |-> s, event |-> events[i]]]
                     ELSE delivered[k]]
  /\ audience' = [audience EXCEPT ![s] = @ \o [i \in 1..Len(events) |-> rooms[s]]]

\* Variant: the event carries the share of the work that is left.
Progress_Remaining(status, progress) ==
  [type |-> "progress", status |-> status, progress |-> 100 - progress]

\* The payload of emitProgress.
Progress(status, progress) == [type |-> "progress", status |-> status, progress |-> progress]

UpdateCalls == {"upd1", "upd2", "upd3", "updF"}

\* Variant: the catch block stores a fixed text instead of error.message.
Updates_GenericError(s, call) ==
  CASE call = "upd1" -> [status |-> "analyzing", progress |-> 10]
    [] call = "upd2" -> [status |-> "testing", progress |-> 60,
                         agents |-> IF Has(cr[s], "agents") THEN cr[s].agents ELSE <<>>]
    [] call = "upd3" -> IF Has(cr[s], "report")
                        THEN [status |-> "completed", progress |-> 100, report |-> cr[s].report]
                        ELSE [status |-> "completed", progress |-> 100]
    [] call = "updF" -> [status |-> "failed", error |-> "Review failed"]

\* Variant: a test run that reports failing tests fails the session.
Updates_FailingTestsFail(s, call) ==
  CASE call = "upd1" -> [status |-> "analyzing", progress |-> 10]
    [] call = "upd2" -> [status |-> "testing", progress |-> 60,
                         agents |-> IF Has(cr[s], "agents") THEN cr[s].agents ELSE <<>>]
    [] call = "upd3" -> IF s \in DOMAIN testResult /\ testResult[s].results.outcome = "tests_failed"
                        THEN [status |-> "failed", error |-> "Tests failed"]
                        ELSE IF Has(cr[s], "report")
                        THEN [status |-> "completed", progress |-> 100, report |-> cr[s].report]
                        ELSE [status |-> "completed", progress |-> 100]
    [] call = "updF" -> [status |-> "failed", error |-> err[s]]

\* Variant: the report is attached together with the Council results.
Updates_ReportEarly(s, call) ==
  CASE call = "upd1" -> [status |-> "analyzing", progress |-> 10]
    [] call = "upd2" -> IF Has(cr[s], "report")
                        THEN [status |-> "testing", progress |-> 60, report |-> cr[s].report,
                              agents |-> IF Has(cr[s], "agents") THEN cr[s].agents ELSE <<>>]
                        ELSE [status |-> "testing", progress |-> 60,
                              agents |-> IF Has(cr[s], "agents") THEN cr[s].agents ELSE <<>>]
    [] call = "upd3" -> IF Has(cr[s], "report")
                        THEN [status |-> "completed", progress |-> 100, report |-> cr[s].report]
                        ELSE [status |-> "completed", progress |-> 100]
    [] call = "updF" -> [status |-> "failed", error |-> err[s]]

\* Variant: the catch block stores the status without the cause.
Updates_NoCause(s, call) ==
  CASE call = "upd1" -> [status |-> "analyzing", progress |-> 10]
    [] call = "upd2" -> [status |-> "testing", progress |-> 60,
                         agents |-> IF Has(cr[s], "agents") THEN cr[s].agents ELSE <<>>]
    [] call = "upd3" -> IF Has(cr[s], "report")
                        THEN [status |-> "completed", progress |-> 100, report |-> cr[s].report]
                        ELSE [status |-> "completed", progress |-> 100]
    [] call = "updF" -> [status |-> "failed"]

\* Variant: the catch block resets the progress.
Updates_FailedResetsProgress(s, call) ==
  CASE call = "upd1" -> [status |-> "analyzing", progress |-> 10]
    [] call = "upd2" -> [status |-> "testing", progress |-> 60,
                         agents |-> IF Has(cr[s], "agents") THEN cr[s].agents ELSE <<>>]
    [] call = "upd3" -> IF Has(cr[s], "report")
                        THEN [status |-> "completed", progress |-> 100, report |-> cr[s].report]
                        ELSE [status |-> "completed", progress |-> 100]
    [] call = "updF" -> [status |-> "failed", progress |-> 0, error |-> err[s]]

\* Variant: the second update stores the agents but not yet the new status.
Updates_TestingNotStored(s, call) ==
  CASE call = "upd1" -> [status |-> "analyzing", progress |-> 10]
    [] call = "upd2" -> [progress |-> 60,
                         agents |-> IF Has(cr[s], "agents") THEN cr[s].agents ELSE <<>>]
    [] call = "upd3" -> IF Has(cr[s], "report")
                        THEN [status |-> "completed", progress |-> 100, report |-> cr[s].report]
                        ELSE [status |-> "completed", progress |-> 100]
    [] call = "updF" -> [status |-> "failed", error |-> err[s]]

\* The updates object of each updateSession call of processReview.  A
\* property whose value is undefined is not written by JSON.stringify.
Updates(s, call) ==
  CASE call = "upd1" -> [status |-> "analyzing", progress |-> 10]
    [] call = "upd2" -> [status |-> "testing", progress |-> 60,
                         agents |-> IF Has(cr[s], "agents") THEN cr[s].agents ELSE <<>>]
    [] call = "upd3" -> IF Has(cr[s], "report")
                        THEN [status |-> "completed", progress |-> 100, report |-> cr[s].report]
                        ELSE [status |-> "completed", progress |-> 100]
    [] call = "updF" -> [status |-> "failed", error |-> err[s]]

\* Variant: the emit after the completed update throws into the catch block.
AfterUpdate_CatchAfterCompleted(call) ==
  CASE call = "upd1" -> "emit1"
    [] call = "upd2" -> "emit2"
    [] call = "upd3" -> "updF_get"
    [] call = "updF" -> "emitF"

\* Where processReview goes on after the updateSession call has returned.
AfterUpdate(call) ==
  CASE call = "upd1" -> "emit1"
    [] call = "upd2" -> "emit2"
    [] call = "upd3" -> "emit3"
    [] call = "updF" -> "emitF"

\* Variant: the catch block only logs the error.
Throw_LogOnly(s, call, message) ==
  pc' = [pc EXCEPT ![s] = "done"] /\ err' = [err EXCEPT ![s] = message]

\* Variant: a failed Council call is sent again.
Throw_RetryCouncil(s, call, message) ==
  IF call = "updF"
  THEN pc' = [pc EXCEPT ![s] = "done"] /\ err' = err
  ELSE IF call = "council"
  THEN pc' = [pc EXCEPT ![s] = "council"] /\ err' = [err EXCEPT ![s] = message]
  ELSE pc' = [pc EXCEPT ![s] = "updF_get"] /\ err' = [err EXCEPT ![s] = message]

\* A throw inside the try block of processReview lands in its catch block,
\* which starts updateSession(failed); a throw inside the catch block ends
\* processReview (the rejection is logged by the caller).
Throw(s, call, message) ==
  IF call = "updF"
  THEN pc' = [pc EXCEPT ![s] = "done"] /\ err' = err
  ELSE pc' = [pc EXCEPT ![s] = "updF_get"] /\ err' = [err EXCEPT ![s] = message]

\* const session = await getSession(sessionId)
StartGet(s) ==
  /\ pc[s] = "getSession"
  /\ IF Found(s)
     THEN session' = Put(session, s, store[s]) /\ pc' = [pc EXCEPT ![s] = "upd1_get"]
     ELSE session' = session /\ pc' = [pc EXCEPT ![s] = "done"]
  /\ UNCHANGED <<store, expireAt, writes, rd, cr, testResult, err, sbLog, published, delivered,
                 audience>>
  /\ DriverVarsUnchanged

\* updateSession: getSession, the null check and the merged object.
UpdateGet(s, call) ==
  /\ pc[s] = call \o "_get"
  /\ IF Found(s)
     THEN /\ rd' = Put(rd, s, Spread(Spread(store[s], Updates(s, call)), [updated_at |-> now]))
          /\ pc' = [pc EXCEPT ![s] = call \o "_set"]
          /\ err' = err
     ELSE /\ rd' = rd
          /\ Throw(s, call, "Session not found")
  /\ UNCHANGED <<store, expireAt, writes, session, cr, testResult, sbLog, published, delivered,
                 audience>>
  /\ DriverVarsUnchanged

\* updateSession: saveSession(updated).
UpdateSet(s, call) ==
  /\ pc[s] = call \o "_set"
  /\ saveSession(s, rd[s])
  /\ rd' = Del(rd, s)
  /\ pc' = [pc EXCEPT ![s] = AfterUpdate(call)]
  /\ UNCHANGED <<session, cr, testResult, err, sbLog, published, delivered,
                 audience>>
  /\ DriverVarsUnchanged

\* The two emitProgress calls after the first update; callCouncil is sent.
EmitAnalyzing(s) ==
  /\ pc[s] = "emit1"
  /\ Emit(s, <<Progress("analyzing", 10), Progress("analyzing", 20)>>)
  /\ pc' = [pc EXCEPT ![s] = "council"]
  /\ UNCHANGED <<store, expireAt, writes, rd, session, cr, testResult, err, sbLog>>
  /\ DriverVarsUnchanged

\* await callCouncil('/council/review', councilRequest)
CouncilReview(s) ==
  /\ pc[s] = "council"
  /\ \/ \E r \in CouncilResponses(session[s].quality_gates) :
          /\ cr' = Put(cr, s, r)
          /\ pc' = [pc EXCEPT ![s] = "upd2_get"]
          /\ err' = err
     \/ \E e \in TransportErrors :
          /\ cr' = cr
          /\ Throw(s, "council", CouncilError(e))
  /\ UNCHANGED <<store, expireAt, writes, rd, session, testResult, sbLog, published, delivered,
                 audience>>
  /\ DriverVarsUnchanged

\* emitProgress(testing, 60) and the test of councilResponse.test_code.
EmitTesting(s) ==
  /\ pc[s] = "emit2"
  /\ Emit(s, <<Progress("testing", 60)>>)
  /\ pc' = [pc EXCEPT ![s] = IF Truthy(cr[s], "test_code") THEN "create" ELSE "upd3_get"]
  /\ UNCHANGED <<store, expireAt, writes, rd, session, cr, testResult, err, sbLog>>
  /\ DriverVarsUnchanged

\* Variant: a failed sandbox call is rethrown to the outer catch block.
SandboxCatch_Rethrow(s, call, e) ==
  /\ sbLog' = [sbLog EXCEPT ![s] = Append(@, [call |-> call, ok |-> FALSE])]
  /\ cr' = cr
  /\ pc' = [pc EXCEPT ![s] = "updF_get"]

\* The catch block around the sandbox calls.
SandboxCatch(s, call, e) ==
  /\ sbLog' = [sbLog EXCEPT ![s] = Append(@, [call |-> call, ok |-> FALSE])]
  /\ cr' = Put(cr, s, Spread(cr[s], [test_results |-> [error |-> SandboxError(e)]]))
  /\ pc' = [pc EXCEPT ![s] = "upd3_get"]

\* await callSandbox('/sandbox/create', 'POST', ...)
SandboxCreate(s) ==
  /\ pc[s] = "create"
  /\ \/ /\ sbLog' = [sbLog EXCEPT ![s] = Append(@, [call |-> "create", ok |-> TRUE])]
        /\ pc' = [pc EXCEPT ![s] = "execute"]
        /\ cr' = cr
     \/ \E e \in TransportErrors : SandboxCatch(s, "create", e)
  /\ UNCHANGED <<store, expireAt, writes, rd, session, testResult, err, published, delivered,
                 audience>>
  /\ DriverVarsUnchanged

\* await callSandbox(`/sandbox/${sandboxId}/execute`, 'POST', ...)
SandboxExecute(s) ==
  /\ pc[s] = "execute"
  /\ \/ \E r \in ExecResults :
          /\ sbLog' = [sbLog EXCEPT ![s] = Append(@, [call |-> "execute", ok |-> TRUE])]
          /\ testResult' = Put(testResult, s, [results |-> r])
          /\ pc' = [pc EXCEPT ![s] = "delete"]
          /\ cr' = cr
     \/ \E e \in TransportErrors :
          /\ SandboxCatch(s, "execute", e)
          /\ testResult' = testResult
  /\ UNCHANGED <<store, expireAt, writes, rd, session, err, published, delivered,
                 audience>>
  /\ DriverVarsUnchanged

\* await callSandbox(`/sandbox/${sandboxId}`, 'DELETE') and
\* councilResponse.test_results = testResult.results
SandboxDelete(s) ==
  /\ pc[s] = "delete"
  /\ \/ /\ sbLog' = [sbLog EXCEPT ![s] = Append(@, [call |-> "delete", ok |-> TRUE])]
        /\ cr' = Put(cr, s, Spread(cr[s], [test_results |-> testResult[s].results]))
        /\ pc' = [pc EXCEPT ![s] = "upd3_get"]
     \/ \E e \in TransportErrors : SandboxCatch(s, "delete", e)
  /\ UNCHANGED <<store, expireAt, writes, rd, session, testResult, err, published, delivered,
                 audience>>
  /\ DriverVarsUnchanged

\* emitProgress(completed, 100, report): the last step of the try block.
EmitCompleted(s) ==
  /\ pc[s] = "emit3"
  /\ Emit(s, <<IF Has(cr[s], "report")
                THEN Spread(Progress("completed", 100), [report |-> cr[s].report])
                ELSE Progress("completed", 100)>>)
  /\ pc' = [pc EXCEPT ![s] = "done"]
  /\ UNCHANGED <<store, expireAt, writes, rd, session, cr, testResult, err, sbLog>>
  /\ DriverVarsUnchanged

\* io.to(sessionId).emit('error', ...): the last step of the catch block.
EmitError(s) ==
  /\ pc[s] = "emitF"
  /\ Emit(s, <<[type |-> "error", message |-> err[s]]>>)
  /\ pc' = [pc EXCEPT ![s] = "done"]
  /\ UNCHANGED <<store, expireAt, writes, rd, session, cr, testResult, err, sbLog>>
  /\ DriverVarsUnchanged

\* One step of processReview(s).
processReview(s) ==
  \/ StartGet(s)
  \/ \E call \in UpdateCalls : UpdateGet(s, call) \/ UpdateSet(s, call)
  \/ EmitAnalyzing(s)
  \/ CouncilReview(s)
  \/ EmitTesting(s)
  \/ SandboxCreate(s)
  \/ SandboxExecute(s)
  \/ SandboxDelete(s)
  \/ EmitCompleted(s)
  \/ EmitError(s)

Next ==
  \/ Tick
  \/ SubmitInvalid
  \/ \E s \in SessionIds :
       \/ Submit(s)
       \/ SubmitRespond(s)
       \/ processReview(s)
  \/ \E s \in SessionIds \cup UnknownIds :
       \/ GetStatus(s)
       \/ GetReport(s)
       \/ FixBegin(s)
       \/ Delete(s)
  \/ FixEnd

Spec == Init /\ [][Next]_vars

\* ------------------------------------------------------- progress channel
HttpVarsUnchanged ==
  /\ UNCHANGED <<now, store, expireAt, writes, nextIds, sub, pc, rd, session, cr,
                 testResult, err, sbLog, published, deleted, fix>>
  /\ RouterUnchanged

\* io.on('connection')
Connect(k) ==
  /\ conn[k] = "new"
  /\ conn' = [conn EXCEPT ![k] = "open"]
  /\ resp' = NoResp
  /\ UNCHANGED <<rooms, delivered, audience>>
  /\ HttpVarsUnchanged

\* socket.on('subscribe', sessionId): socket.join(sessionId)
Subscribe(k, s) ==
  /\ conn[k] = "open"
  /\ sub[s] \in {"responded", "known"}
  /\ k \notin rooms[s]
  /\ rooms' = [rooms EXCEPT ![s] = @ \cup {k}]
  /\ resp' = NoResp
  /\ UNCHANGED <<conn, delivered, audience>>
  /\ HttpVarsUnchanged

\* socket.on('unsubscribe', sessionId): socket.leave(sessionId)
Unsubscribe(k, s) ==
  /\ conn[k] = "open"
  /\ k \in rooms[s]
  /\ rooms' = [rooms EXCEPT ![s] = @ \ {k}]
  /\ resp' = NoResp
  /\ UNCHANGED <<conn, delivered, audience>>
  /\ HttpVarsUnchanged

\* socket.on('disconnect'): Socket.IO takes the socket out of every room.
Disconnect(k) ==
  /\ conn[k] = "open"
  /\ conn' = [conn EXCEPT ![k] = "closed"]
  /\ rooms' = [s \in SessionIds |-> rooms[s] \ {k}]
  /\ resp' = NoResp
  /\ UNCHANGED <<delivered, audience>>
  /\ HttpVarsUnchanged

\* The Socket.IO clients share nothing with the HTTP clients but the driver
\* that publishes to them, so the channel is explored with the requests that
\* start a driver or change its course (Submit, Delete) and the driver.
ChannelNext ==
  \/ \E s \in SessionIds :
       \/ Submit(s)
       \/ SubmitRespond(s)
       \/ processReview(s)
       \/ Delete(s)
  \/ \E k \in Sockets :
       \/ Connect(k)
       \/ Disconnect(k)
       \/ \E s \in SessionIds : Subscribe(k, s) \/ Unsubscribe(k, s)

ChannelSpec == Init /\ [][ChannelNext]_vars

\* ------------------------------------------------------ tRPC review router
\* ctx.user.id of the callers.  The users are interchangeable: the first one
\* submits, the other one is a stranger to the reviews.
Users == {"u1", "u2"}

\* z.enum([...]) of qualityGates, which is also the default of submit.
GateEnum == <<"qa", "security", "performance", "architecture">>

\* Inputs of review.submit (a field that is left out is absent).
ReviewInputs ==
  { [code |-> "code", language |-> "javascript"],
    [code |-> "code", language |-> "javascript", qualityGates |-> <<"qa", "security">>],
    [code |-> "code", language |-> "javascript", qualityGates |-> <<>>],
    [code |-> "", language |-> "javascript"],
    [code |-> "code", language |-> "javascript", qualityGates |-> <<"style">>] }

\* The zod schema of submit's input.
ValidInput(input) ==
  /\ input.code # ""
  /\ input.language # ""
  /\ Has(input, "qualityGates") => Range(input.qualityGates) \subseteq Range(GateEnum)

\* Variant: the default is the three gates the bridge service defaults to.
GatesOf_BridgeDefault(input) ==
  IF Has(input, "qualityGates") THEN input.qualityGates ELSE DefaultGates

\* input.qualityGates || ["qa", "security", "performance", "architecture"]
GatesOf(input) == IF Has(input, "qualityGates") THEN input.qualityGates ELSE GateEnum

\* Math.floor(Math.random() * 30) + 70, a value of 70..99.  The router only
\* stores the score and hands it back, so one value stands for all of them.
Scores == {70}

\* db.createReview: a new row, whose id is its position.
createReview(row) == Append(reviews, row)

\* db.createAgentResult, once per gate, in the order of gates.map.
createAgentResults(rid, gates) ==
  agentResults \o [i \in 1..Len(gates) |->
                     [reviewId |-> rid, agentType |-> gates[i], status |-> "pending"]]

\* db.updateReviewStatus(id, status) and (id, status, score)
updateReviewStatus(rid, fields) == [reviews EXCEPT ![rid] = Spread(@, fields)]

\* db.updateAgentResult(id, fields)
updateAgentResult(a, fields) == [agentResults EXCEPT ![a] = Spread(@, fields)]

\* db.getAgentResultsByReviewId: the ids of the review's rows, in id order.
AgentIdsOf(rid) ==
  SelectSeq([i \in 1..Len(agentResults) |-> i], LAMBDA i : agentResults[i].reviewId = rid)

\* db.getReviewById and the handler's check of the owner.
Visible(u, rid) == IF rid \in 1..Len(reviews) THEN reviews[rid].userId = u ELSE FALSE

\* getMockFindings(agentType): one finding for each gate of the enum.
MockFindings(agentType) ==
  IF agentType = "security" THEN <<[severity |-> "critical"]>>
  ELSE IF agentType = "qa" THEN <<[severity |-> "high"]>>
  ELSE IF agentType = "performance" THEN <<[severity |-> "medium"]>>
  ELSE IF agentType = "architecture" THEN <<[severity |-> "low"]>>
  ELSE <<>>

\* The review ids a caller names: one a submit has returned, or one that
\* names no review.
ReviewIds == NewReviewIds \cup UnknownReviewIds
Nameable(rid) ==
  IF rid \in DOMAIN submits THEN submits[rid].pc = "returned" ELSE rid \in UnknownReviewIds

BridgeUnchanged ==
  UNCHANGED <<now, store, expireAt, writes, nextIds, sub, pc, rd, session, cr, testResult,
              err, sbLog, published, deleted, fix, conn, rooms, delivered, audience>>

RouterError(op, message) == [op |-> op, error |-> message]

\* review.submit with an input the schema rejects: the mutation does not run.
SubmitReviewInvalid ==
  /\ Len(reviews) < Cardinality(NewReviewIds)
  /\ \E input \in ReviewInputs :
       /\ ~ValidInput(input)
       /\ resp' = RouterError("review.submit", "BAD_REQUEST")
  /\ UNCHANGED routerVars
  /\ BridgeUnchanged

\* review.submit up to the await of createReview.
SubmitReview(u) ==
  /\ Len(reviews) < Cardinality(NewReviewIds)
  /\ \E input \in ReviewInputs :
       /\ ValidInput(input)
       /\ reviews' = createReview([userId |-> u, language |-> input.language,
                                   status |-> "pending"])
       /\ submits' = Append(submits, [pc |-> "agents", input |-> input])
  /\ resp' = NoResp
  /\ UNCHANGED <<agentResults, findings, sims, gets>>
  /\ BridgeUnchanged

\* review.submit: the createAgentResult calls and the return.
SubmitReviewAgents(rid) ==
  /\ rid \in DOMAIN submits
  /\ submits[rid].pc = "agents"
  /\ agentResults' = createAgentResults(rid, GatesOf(submits[rid].input))
  /\ findings' = findings \o [i \in 1..Len(GatesOf(submits[rid].input)) |-> 0]
  /\ submits' = [submits EXCEPT ![rid].pc = "returned"]
  /\ resp' = [op |-> "review.submit", reviewId |-> rid, status |-> "pending"]
  /\ UNCHANGED <<reviews, sims, gets>>
  /\ BridgeUnchanged

\* review.getById: getReviewById and the check of the owner.
GetByIdBegin(u, rid) ==
  /\ gets.pc = "idle"
  /\ Nameable(rid)
  /\ IF Visible(u, rid)
     THEN /\ gets' = [pc |-> "agents", rid |-> rid, review |-> reviews[rid]]
          /\ resp' = NoResp
     ELSE /\ gets' = gets
          /\ resp' = RouterError("review.getById", "Review not found")
  /\ UNCHANGED <<reviews, agentResults, findings, submits, sims>>
  /\ BridgeUnchanged

\* review.getById: getAgentResultsByReviewId.
GetByIdAgents ==
  /\ gets.pc = "agents"
  /\ gets' = [pc |-> "findings", rid |-> gets.rid, review |-> gets.review,
              ids |-> AgentIdsOf(gets.rid),
              rows |-> [i \in 1..Len(AgentIdsOf(gets.rid)) |->
                          agentResults[AgentIdsOf(gets.rid)[i]]]]
  /\ resp' = NoResp
  /\ UNCHANGED <<reviews, agentResults, findings, submits, sims>>
  /\ BridgeUnchanged

\* review.getById: getFindingsByAgentResultId for every agent, and the return.
GetByIdFindings ==
  /\ gets.pc = "findings"
  /\ resp' = [op |-> "review.getById", id |-> gets.rid, review |-> gets.review,
              agents |-> [i \in 1..Len(gets.rows) |->
                            Spread(gets.rows[i], [findings |-> findings[gets.ids[i]]])]]
  /\ gets' = [pc |-> "idle"]
  /\ UNCHANGED <<reviews, agentResults, findings, submits, sims>>
  /\ BridgeUnchanged

\* review.list: getUserReviews(ctx.user.id)
ListReviews(u) ==
  /\ reviews # <<>>
  /\ resp' = [op |-> "review.list",
              reviews |-> SelectSeq([i \in 1..Len(reviews) |-> Spread(reviews[i], [id |-> i])],
                                    LAMBDA r : r.userId = u)]
  /\ UNCHANGED routerVars
  /\ BridgeUnchanged

\* The agent result the loop of simulateProgress is at.
AgentAt(k) == sims[k].agents[sims[k].i]

SimStep(k, to) == sims' = [sims EXCEPT ![k].pc = to]

\* review.simulateProgress: getReviewById and the check of the owner.  The
\* call slots are taken in order.
SimBegin(k, u, rid) ==
  /\ sims[k].pc = "idle"
  /\ \A j \in SimCalls : j < k => sims[j].pc # "idle"
  /\ Nameable(rid)
  /\ IF Visible(u, rid)
     THEN /\ sims' = [sims EXCEPT ![k] = [pc |-> "setInProgress", rid |-> rid]]
          /\ resp' = NoResp
     ELSE /\ sims' = [sims EXCEPT ![k] = [pc |-> "rejected"]]
          /\ resp' = RouterError("review.simulateProgress", "Review not found")
  /\ UNCHANGED <<reviews, agentResults, findings, submits, gets>>
  /\ BridgeUnchanged

\* await updateReviewStatus(input.reviewId, "in_progress")
SimInProgress(k) ==
  /\ sims[k].pc = "setInProgress"
  /\ reviews' = updateReviewStatus(sims[k].rid, [status |-> "in_progress"])
  /\ SimStep(k, "getAgents")
  /\ resp' = NoResp
  /\ UNCHANGED <<agentResults, findings, submits, gets>>
  /\ BridgeUnchanged

\* const agents = await getAgentResultsByReviewId(input.reviewId)
SimGetAgents(k) ==
  /\ sims[k].pc = "getAgents"
  /\ sims' = [sims EXCEPT ![k] =
                [pc |-> IF AgentIdsOf(sims[k].rid) = <<>> THEN "complete" ELSE "agentStart",
                 rid |-> sims[k].rid, agents |-> AgentIdsOf(sims[k].rid), i |-> 1]]
  /\ resp' = NoResp
  /\ UNCHANGED <<reviews, agentResults, findings, submits, gets>>
  /\ BridgeUnchanged

\* await updateAgentResult(agent.id, { status: "in_progress", ... })
SimAgentStart(k) ==
  /\ sims[k].pc = "agentStart"
  /\ agentResults' = updateAgentResult(AgentAt(k), [status |-> "in_progress"])
  /\ SimStep(k, IF MockFindings(agentResults[AgentAt(k)].agentType) = <<>>
                THEN "agentDone" ELSE "finding")
  /\ resp' = NoResp
  /\ UNCHANGED <<reviews, findings, submits, gets>>
  /\ BridgeUnchanged

\* await createFinding({ agentResultId: agent.id, ...finding })
SimFinding(k) ==
  /\ sims[k].pc = "finding"
  /\ findings' = [findings EXCEPT ![AgentAt(k)] = @ + 1]
  /\ SimStep(k, "agentDone")
  /\ resp' = NoResp
  /\ UNCHANGED <<reviews, agentResults, submits, gets>>
  /\ BridgeUnchanged

\* await updateAgentResult(agent.id, { status: "completed", score, ... })
SimAgentDone(k) ==
  /\ sims[k].pc = "agentDone"
  /\ \E score \in Scores :
       agentResults' = updateAgentResult(AgentAt(k), [status |-> "completed", score |-> score])
  /\ sims' = [sims EXCEPT ![k].pc = IF sims[k].i = Len(sims[k].agents)
                                    THEN "complete" ELSE "agentStart",
                          ![k].i = @ + 1]
  /\ resp' = NoResp
  /\ UNCHANGED <<reviews, findings, submits, gets>>
  /\ BridgeUnchanged

\* await updateReviewStatus(input.reviewId, "completed", 85) and the return.
SimComplete(k) ==
  /\ sims[k].pc = "complete"
  /\ reviews' = updateReviewStatus(sims[k].rid, [status |-> "completed", score |-> 85])
  /\ SimStep(k, "returned")
  /\ resp' = [op |-> "review.simulateProgress", success |-> TRUE]
  /\ UNCHANGED <<agentResults, findings, submits, gets>>
  /\ BridgeUnchanged

\* One step of a review.simulateProgress call.
simulateProgress(k) ==
  \/ \E u \in Users, rid \in ReviewIds : SimBegin(k, u, rid)
  \/ SimInProgress(k)
  \/ SimGetAgents(k)
  \/ SimAgentStart(k)
  \/ SimFinding(k)
  \/ SimAgentDone(k)
  \/ SimComplete(k)

RouterNext ==
  \/ SubmitReviewInvalid
  \/ SubmitReview("u1")
  \/ \E u \in Users : ListReviews(u)
  \/ \E rid \in ReviewIds : SubmitReviewAgents(rid)
  \/ \E u \in Users, rid \in ReviewIds : GetByIdBegin(u, rid)
  \/ GetByIdAgents
  \/ GetByIdFindings
  \/ \E k \in SimCalls : simulateProgress(k)

RouterSpec == Init /\ [][RouterNext]_vars

\* The event loop runs every continuation that is ready, Redis answers every
\* command, and axios ends every collaborator call by its timeout at the latest.
LiveSpec ==
  /\ Spec
  /\ \A s \in SessionIds : WF_vars(SubmitRespond(s)) /\ WF_vars(processReview(s))

\* ------------------------------------------------------------- properties
Terminal(s) == Found(s) /\ store[s].status \in {"completed", "failed"}

\* processReview(s) has returned or has been rejected.
Finished(s) == pc[s] = "done"

StoredStatuses(s) == {writes[s][i].status : i \in 1..Len(writes[s])}
PublishedStatuses(s) ==
  {published[s][i].status : i \in {j \in 1..Len(published[s]) : published[s][j].type = "progress"}}

SandboxCalls(s, call) == {i \in 1..Len(sbLog[s]) : sbLog[s][i].call = call}
SandboxCreated(s) == \E i \in SandboxCalls(s, "create") : sbLog[s][i].ok

\* The driver has not yet saved its first update (pending -> analyzing).
BeforeFirstUpdate(s) == pc[s] \in {"getSession", "upd1_get", "upd1_set"}

\* C1 as stated: the GetStatus a caller issues as its next operation after
\* Submit's response returns, for a session that is still stored, status
\* pending with progress 0, whatever steps processReview has taken in between.
C1_FirstPollPending ==
  [][\A s \in SessionIds :
       (sub[s] = "responded" /\ GetStatus(s) /\ Found(s))
         => (resp'.http = 200 /\ resp'.status = "pending" /\ resp'.progress = 0)]_vars

\* C1 amended: the GetStatus a caller issues as its next operation after
\* Submit's response returns status pending with progress 0 as long as the
\* session is still stored and processReview has not yet saved its first
\* update; after that save it returns what processReview stored last.
C1_FirstPollBeforeFirstUpdate ==
  [][\A s \in SessionIds :
       (sub[s] = "responded" /\ GetStatus(s))
         => /\ (Found(s) /\ BeforeFirstUpdate(s))
                 => (resp'.http = 200 /\ resp'.status = "pending" /\ resp'.progress = 0)
            /\ Found(s)
                 => (resp'.http = 200 /\ resp'.status = store[s].status
                                     /\ resp'.progress = store[s].progress)]_vars

C1_Witness ==
  \E s \in SessionIds :
    /\ sub[s] = "known" /\ pc[s] = "upd1_set"
    /\ resp.op = "status" /\ resp.sid = s /\ resp.http = 200
    /\ resp.status = "pending" /\ resp.progress = 0

\* C2: a driver that has created a sandbox has sent DELETE /sandbox/{id}
\* exactly once by the time it finishes, whether execute succeeded or failed.
C2_ReleasedExactlyOnce ==
  \A s \in SessionIds :
    (Finished(s) /\ SandboxCreated(s)) => Cardinality(SandboxCalls(s, "delete")) = 1

\* C3: once Delete(s) has been answered the key session:s is absent in every
\* later state, also when processReview(s) is still running.
C3_DeletedStaysAbsent == \A s \in deleted : ~Found(s)

\* C4: once the stored session is completed or failed, no step changes any
\* of its fields; the only later change is the removal of the key.
C4_TerminalIsFinal ==
  [][\A s \in SessionIds :
       Terminal(s) => (~Found(s)' \/ store'[s] = store[s])]_vars

C4_Witness ==
  \E s \in SessionIds :
    /\ Terminal(s) /\ Finished(s)
    /\ resp.op = "fix" /\ resp.sid = s /\ resp.http = 200
    /\ store[s].updated_at < now

\* C5: no session hangs: every submitted session ends up, for good, either
\* out of the store or stored as completed or failed, and a stored failed
\* session carries a non-empty error.
C5_NoSessionHangs ==
  \A s \in SessionIds :
    /\ [](sub[s] # "none" => <>[](~Found(s) \/ Terminal(s)))
    /\ []((Found(s) /\ store[s].status = "failed")
            => (Has(store[s], "error") /\ store[s].error # ""))

C5_Witness ==
  \E s \in SessionIds :
    /\ Finished(s) /\ Found(s) /\ store[s].status = "failed"
    /\ Has(store[s], "error") /\ store[s].error # ""

\* A create or execute call of the session's sandbox failed in transport.
SandboxFailed(s) ==
  \E i \in 1..Len(sbLog[s]) : sbLog[s][i].call \in {"create", "execute"} /\ ~sbLog[s][i].ok

CouncilErrors == {CouncilError(e) : e \in TransportErrors}

\* C7: when the /council/review call fails, no sandbox call is ever made, the
\* session is never stored as completed, and a session still stored when
\* processReview ends is failed with the error message as its cause.
C7_CouncilFailureFailsSession ==
  \A s \in SessionIds :
    err[s] \in CouncilErrors
      => /\ sbLog[s] = <<>>
         /\ "completed" \notin StoredStatuses(s)
         /\ (Finished(s) /\ Found(s))
              => /\ store[s].status = "failed"
                 /\ Has(store[s], "error") /\ store[s].error = err[s]

C7_Witness ==
  \E s \in SessionIds :
    /\ err[s] \in CouncilErrors /\ Finished(s) /\ Found(s)
    /\ store[s].status = "failed" /\ store[s].error = err[s]

\* C8: when the Council's answer has no test_code, status testing is never
\* stored and never published for the session.
C8_NoTestingWithoutTests ==
  \A s \in DOMAIN cr :
    ~Truthy(cr[s], "test_code")
      => "testing" \notin (StoredStatuses(s) \cup PublishedStatuses(s))

\* The sandbox ran the tests and reported failing tests.
TestsFailed(s) == s \in DOMAIN testResult /\ testResult[s].results.outcome = "tests_failed"

\* C9: when the sandbox reports failing tests, the session has been stored
\* as testing, is never stored as failed, and a session still stored when
\* processReview ends is completed.
C9_FailingTestsStillComplete ==
  \A s \in SessionIds :
    TestsFailed(s)
      => /\ "testing" \in StoredStatuses(s)
         /\ "failed" \notin StoredStatuses(s)
         /\ (Finished(s) /\ Found(s)) => store[s].status = "completed"

C9_Witness ==
  \E s \in SessionIds :
    /\ TestsFailed(s) /\ Finished(s) /\ Found(s)
    /\ store[s].status = "completed"

\* C10: a stored session has a report only if its status is completed and
\* its progress 100: the report arrives in the write that completes it.
C10_ReportOnlyWhenCompleted ==
  \A s \in DOMAIN store :
    Has(store[s], "report")
      => (store[s].status = "completed" /\ store[s].progress = 100)

C10_Witness ==
  \E s \in DOMAIN store :
    /\ Has(store[s], "report") /\ pc[s] = "emit3"
    /\ resp.op = "status" /\ resp.sid = s /\ resp.status = "completed"

\* C11: every session stored as completed has a report, whatever the Council
\* answered.
C11_CompletedHasReport ==
  \A s \in DOMAIN store :
    store[s].status = "completed" => Has(store[s], "report")

AgentNames(agents) == {agents[i].name : i \in 1..Len(agents)}

\* C12: every session stored as completed has one agents entry per requested
\* quality gate, and no other, whatever the Council answered.
C12_AgentsAreRequestedGates ==
  \A s \in DOMAIN store :
    store[s].status = "completed"
      => /\ Len(store[s].agents) = Len(store[s].quality_gates)
         /\ AgentNames(store[s].agents) = Range(store[s].quality_gates)

\* C13: every session stored as failed has no report and has an error cause.
C13_FailedHasCauseNoReport ==
  \A s \in DOMAIN store :
    store[s].status = "failed"
      => /\ ~Has(store[s], "report")
         /\ Has(store[s], "error") /\ store[s].error # ""

C13_Witness ==
  \E s \in DOMAIN store :
    /\ store[s].status = "failed" /\ store[s].error = CouncilError("timeout")
    /\ ~Has(store[s], "report") /\ pc[s] = "emitF"

\* C14: the progress of the values stored for a session never decreases from
\* one store write to the next, the failed update included, and lies in 0..100.
C14_StoredProgressMonotone ==
  \A s \in SessionIds :
    /\ \A i \in 1..Len(writes[s]) : writes[s][i].progress \in 0..100
    /\ \A i, j \in 1..Len(writes[s]) :
         i <= j => writes[s][i].progress <= writes[s][j].progress
    /\ Found(s) => store[s].progress = writes[s][Len(writes[s])].progress

C14_Witness ==
  \E s \in SessionIds :
    /\ Found(s) /\ store[s].status = "failed" /\ store[s].progress = 10
    /\ Len(writes[s]) = 3

AllIds == SessionIds \cup UnknownIds

\* C18: GetReport answers with the stored report only for a completed
\* session, with a not-ready error for any other stored session and with not
\* found for a missing one, and leaves the store as it was.
C18_ReportOnlyWhenCompleted ==
  [][\A s \in AllIds :
       GetReport(s)
         => /\ store' = store /\ expireAt' = expireAt
            /\ resp'.op = "report"
            /\ IF ~Found(s) THEN resp'.http = 404
               ELSE IF store[s].status # "completed"
               THEN resp'.http = 400 /\ ~Has(resp', "report")
               ELSE /\ resp'.http = 200
                    /\ Has(resp', "report") = Has(store[s], "report")
                    /\ Has(resp', "report") => resp'.report = store[s].report]_vars

C18_Witness ==
  \E s \in SessionIds :
    /\ resp.op = "report" /\ resp.sid = s /\ resp.http = 200
    /\ Has(resp, "report") /\ resp.report = store[s].report

\* C19: a fix request for a session that is stored with a status other than
\* completed is answered with an error and sends nothing to /council/fix.
C19_FixOnlyWhenCompleted ==
  [][\A s \in SessionIds :
       (FixBegin(s) /\ Found(s) /\ store[s].status # "completed")
         => (fix' = fix /\ resp'.op = "fix" /\ resp'.http = 400)]_vars

C19_Witness ==
  \E s \in SessionIds :
    /\ Found(s) /\ store[s].status = "testing"
    /\ resp.op = "fix" /\ resp.sid = s /\ resp.http = 400 /\ fix = {}

\* C20: a fix request never changes the stored session, and the findings it
\* forwards are the report's priority fixes whose severity is in the
\* requested filter, in the report's order.
C20_FixDoesNotMutate ==
  [][/\ (FixEnd \/ \E s \in AllIds : FixBegin(s))
         => (store' = store /\ expireAt' = expireAt /\ writes' = writes)
     /\ \A s \in SessionIds : \A f \in fix' \ fix :
         (FixBegin(s) /\ f.sid = s)
           => LET all == store[s].report.priority_fixes
                  wanted == {i \in 1..Len(all) : all[i].severity \in Range(f.asked)}
              IN /\ Len(f.findings) = Cardinality(wanted)
                 /\ \A i \in wanted :
                      f.findings[Cardinality({j \in wanted : j <= i})] = all[i]]_vars

C20_Witness ==
  \E s \in SessionIds :
    /\ resp.op = "fix" /\ resp.sid = s /\ resp.http = 200
    /\ resp.fixed = <<[severity |-> "low"]>>
    /\ Found(s) /\ store[s].report = Report1

\* The events socket k was sent for room s, in the order it was sent them.
DeliveredFor(k, s) ==
  LET mine == SelectSeq(delivered[k], LAMBDA d : d.room = s)
  IN [i \in 1..Len(mine) |-> mine[i].event]

\* The events published to room s while socket k was in it, in publish order.
Owed(k, s) ==
  LET at == {i \in 1..Len(published[s]) : k \in audience[s][i]}
  IN [n \in 1..Cardinality(at) |->
        published[s][CHOOSE i \in at : Cardinality({j \in at : j <= i}) = n]]

LastOf(seq, n) == SubSeq(seq, Len(seq) - n + 1, Len(seq))

\* C15: the progress values of the progress events delivered to one
\* subscriber of a session never decrease.
C15_DeliveredProgressMonotone ==
  \A k \in Sockets, s \in SessionIds :
    LET got == SelectSeq(DeliveredFor(k, s), LAMBDA e : e.type = "progress")
    IN \A i, j \in 1..Len(got) : i <= j => got[i].progress <= got[j].progress

C15_Witness ==
  \E k \in Sockets, s \in SessionIds :
    /\ Len(DeliveredFor(k, s)) = 4
    /\ DeliveredFor(k, s)[1].progress = 10 /\ DeliveredFor(k, s)[4].progress = 100

\* C16: two sockets that have both been in a session's room since the i-th
\* published event have both been sent, as their latest events, the events
\* published from the i-th on, in publish order.
C16_SubscribersSeeSameOrder ==
  \A s \in SessionIds : \A a, b \in Sockets : \A i \in 1..Len(published[s]) :
    (\A j \in i..Len(published[s]) : {a, b} \subseteq audience[s][j])
      => LET n == Len(published[s]) - i + 1
             tail == SubSeq(published[s], i, Len(published[s]))
         IN /\ Len(DeliveredFor(a, s)) >= n /\ Len(DeliveredFor(b, s)) >= n
            /\ LastOf(DeliveredFor(a, s), n) = tail
            /\ LastOf(DeliveredFor(b, s), n) = tail

C16_Witness ==
  \E s \in SessionIds :
    /\ rooms[s] = {"a", "b"} /\ Len(published[s]) = 4
    /\ Len(DeliveredFor("a", s)) = 4 /\ Len(DeliveredFor("b", s)) = 2
    /\ LastOf(DeliveredFor("a", s), 2) = DeliveredFor("b", s)

\* C17: a socket has been sent, for a session, exactly the events that were
\* published while it was in the room, each once and in publish order:
\* nothing published before it subscribed or after it left or disconnected.
C17_NoReplayAtMostOnce ==
  \A k \in Sockets, s \in SessionIds : DeliveredFor(k, s) = Owed(k, s)

C17_Witness ==
  \E k \in Sockets, s \in SessionIds :
    /\ conn[k] = "closed" /\ Len(published[s]) = 4
    /\ DeliveredFor(k, s) = <<published[s][3]>>

\* No processReview is running for the id: none was ever started for it, or
\* the one started for it has ended.
NoDriver(s) == IF s \in UnknownIds THEN TRUE ELSE Finished(s)

\* C21: Delete is idempotent: every Delete, of a stored id, of a deleted id
\* or of an id that never existed, is answered with the same acknowledgement
\* and leaves the key absent; a Delete of an absent key changes nothing in
\* the store; and with no processReview running the key stays absent, so
\* that a later GetStatus answers not found.
C21_DeleteIdempotent ==
  [][\A s \in AllIds :
       /\ Delete(s)
            => /\ resp' = [op |-> "delete", http |-> 200, sid |-> s,
                           message |-> "Session deleted"]
               /\ ~Found(s)'
               /\ ~Found(s) => (store' = store /\ expireAt' = expireAt /\ writes' = writes)
       /\ (NoDriver(s) /\ ~Found(s)) => ~Found(s)'
       /\ (GetStatus(s) /\ ~Found(s)) => resp' = NotFound("status", s)]_vars

C21_Witness ==
  \E s \in SessionIds :
    /\ s \in deleted /\ Finished(s) /\ Len(writes[s]) = 4 /\ Len(published[s]) = 4
    /\ resp = NotFound("status", s)

\* C22: a Submit whose code is missing or empty is answered with a
\* validation error, writes nothing to the store, hands out no session id,
\* starts no processReview and publishes no event.
C22_InvalidSubmitHasNoEffect ==
  [][SubmitInvalid
       => /\ resp'.op = "submit" /\ resp'.http = 400
          /\ store' = store /\ expireAt' = expireAt /\ writes' = writes
          /\ nextIds' = nextIds /\ sub' = sub /\ pc' = pc
          /\ published' = published /\ delivered' = delivered]_vars

C22_Witness ==
  /\ resp = [op |-> "submit", http |-> 400, error |-> "Code is required"]
  /\ store = << >> /\ nextIds = SessionIds
  /\ \A s \in SessionIds : pc[s] = "idle" /\ published[s] = <<>>

\* C23: every store write of a session (Submit's and each update of
\* processReview) sets the key's expiry to the full window from the time of
\* the write; GetStatus, GetReport and the fix requests leave every expiry as
\* it is; a stored key is never past its expiry, the clock step that reaches
\* it removes the key; and a request for an absent key is answered not found.
C23_WritesRestartWindow ==
  [][/\ \A s \in SessionIds :
          /\ writes'[s] # writes[s]
               => (Found(s)' /\ expireAt'[s] = now * TickSeconds + EX)
          /\ (Found(s) /\ Found(s)') => expireAt'[s] >= expireAt[s]
          /\ Found(s)' => expireAt'[s] > now' * TickSeconds
          /\ (Tick /\ Found(s) /\ expireAt[s] <= now' * TickSeconds) => ~Found(s)'
     /\ \A s \in AllIds :
          /\ (GetStatus(s) \/ GetReport(s) \/ FixBegin(s) \/ FixEnd)
               => (store' = store /\ expireAt' = expireAt)
          /\ ((GetStatus(s) \/ GetReport(s) \/ FixBegin(s)) /\ ~Found(s))
               => (resp'.http = 404 /\ resp'.error = "Session not found")]_vars

\* A session written half a window after its creation is still stored when
\* the window that started at its creation has elapsed, and a read finds it.
C23_Witness ==
  \E s \in SessionIds :
    /\ Found(s) /\ store[s].created_at = 0 /\ now * TickSeconds >= EX
    /\ expireAt[s] = TickSeconds + EX
    /\ resp.op = "status" /\ resp.sid = s /\ resp.http = 200

\* The awaits of processReview in the order the code reaches them; the catch
\* block comes after every await of the try block.
PcOrder ==
  <<"idle", "getSession", "upd1_get", "upd1_set", "emit1", "council", "upd2_get",
    "upd2_set", "emit2", "create", "execute", "delete", "upd3_get", "upd3_set",
    "emit3", "updF_get", "updF_set", "emitF", "done">>
PcRank(p) == CHOOSE i \in 1..Len(PcOrder) : PcOrder[i] = p

\* C24: a session id gets its processReview from the one Submit that issued
\* the id and never a second one; every step of processReview moves it
\* forward in the order of its awaits, so it passes each await at most once:
\* one /council/review call, one sandbox create, one execute, one DELETE at
\* most, also after a failure or a failing test run.
C24_OneDriverNoRetry ==
  [][\A s \in SessionIds :
       /\ (pc'[s] = "getSession" /\ pc[s] # "getSession")
            => (SubmitRespond(s) /\ pc[s] = "idle" /\ sub[s] = "saved")
       /\ processReview(s) => PcRank(pc'[s]) > PcRank(pc[s])
       /\ pc'[s] # pc[s] => PcRank(pc'[s]) > PcRank(pc[s])
       /\ \A call \in {"create", "execute", "delete"} :
            Cardinality(SandboxCalls(s, call))' <= 1]_vars

C24_Witness ==
  \E s \in SessionIds :
    /\ TestsFailed(s) /\ Finished(s) /\ now >= 1
    /\ Cardinality(SandboxCalls(s, "create")) = 1
    /\ Cardinality(SandboxCalls(s, "execute")) = 1

\* The gates a submit input asks for: its qualityGates, all four when it has none.
Requested(input) ==
  IF Has(input, "qualityGates") THEN input.qualityGates
  ELSE <<"qa", "security", "performance", "architecture">>

\* No review.simulateProgress call has been accepted so far.
NoSimulation == \A k \in SimCalls : sims[k].pc \in {"idle", "rejected"}

\* C25: review.submit returns status pending and adds one agent result per
\* requested gate (all four when none is given), in the order of the gates,
\* each pending and with no finding; a getById that follows submit, before
\* any simulateProgress, returns the pending review with exactly those agents.
C25_SubmitCreatesPendingAgents ==
  [][\A rid \in NewReviewIds :
       /\ SubmitReviewAgents(rid)
            => LET gates == Requested(submits[rid].input)
                   old == Len(agentResults)
               IN /\ resp' = [op |-> "review.submit", reviewId |-> rid, status |-> "pending"]
                  /\ reviews'[rid].status = "pending"
                  /\ Len(agentResults') = old + Len(gates)
                  /\ SubSeq(agentResults', 1, old) = agentResults
                  /\ \A i \in 1..Len(gates) :
                       agentResults'[old + i] =
                         [reviewId |-> rid, agentType |-> gates[i], status |-> "pending"]
       /\ (GetByIdFindings /\ gets.rid = rid /\ NoSimulation)
            => LET gates == Requested(submits[rid].input)
               IN /\ resp'.op = "review.getById" /\ resp'.id = rid
                  /\ resp'.review.status = "pending"
                  /\ Len(resp'.agents) = Len(gates)
                  /\ \A i \in 1..Len(gates) :
                       /\ resp'.agents[i].agentType = gates[i]
                       /\ resp'.agents[i].status = "pending"
                       /\ resp'.agents[i].findings = 0]_vars

C25_Witness ==
  /\ NoSimulation
  /\ resp.op = "review.getById"
  /\ IF Has(resp, "agents")
     THEN /\ ~Has(submits[resp.id].input, "qualityGates")
          /\ Len(resp.agents) = 4
          /\ \A i \in 1..4 : resp.agents[i].status = "pending"
     ELSE FALSE

\* The positions of the terminal events among the events published for s: the
\* progress event with status completed and the error event.
TerminalEvents(s) ==
  {i \in 1..Len(published[s]) :
     IF published[s][i].type = "progress" THEN published[s][i].status = "completed"
     ELSE published[s][i].type = "error"}

\* C26: a processReview that has ended, by success or by failure at any step,
\* has published exactly one terminal event, and a terminal event is the
\* last event published for its session.
C26_ExactlyOneTerminalEvent ==
  \A s \in SessionIds :
    /\ Finished(s) => Cardinality(TerminalEvents(s)) = 1
    /\ \A i \in TerminalEvents(s) : i = Len(published[s])

\* The execution phase of processReview(s) has run: the sandbox calls have
\* left test results or the execution error on councilResponse.
Executed(s) == IF s \in DOMAIN cr THEN Has(cr[s], "test_results") ELSE FALSE

\* C27: when the execution phase has run, the report stored for the
\* completed session and the report of the completed event contain the
\* execution results (the test results, or the execution error).
C27_ReportHasExecutionResults ==
  \A s \in SessionIds :
    Executed(s)
      => /\ (Found(s) /\ store[s].status = "completed")
              => /\ Has(store[s], "report")
                 /\ Has(store[s].report, "test_results")
                 /\ store[s].report.test_results = cr[s].test_results
         /\ \A i \in TerminalEvents(s) :
              published[s][i].type = "progress"
                => /\ Has(published[s][i], "report")
                   /\ Has(published[s][i].report, "test_results")
                   /\ published[s][i].report.test_results = cr[s].test_results

\* C28: every stored session has a non-empty quality_gates list whose names
\* are all among the analysis capabilities.
C28_GatesNonEmptyFromEnum ==
  \A s \in DOMAIN store :
    /\ store[s].quality_gates # <<>>
    /\ Range(store[s].quality_gates) \subseteq {"qa", "security", "performance", "architecture"}

\* The order of the statuses of a session; failed ends it from any of the
\* others.
StatusRank(status) ==
  CASE status = "pending" -> 0
    [] status = "analyzing" -> 1
    [] status = "testing" -> 2
    [] status = "completed" -> 3
    [] status = "failed" -> 4

ProgressEvents(s) == {i \in 1..Len(published[s]) : published[s][i].type = "progress"}

\* C29: the statuses stored for a session and the statuses its progress
\* events announce each come in the one order analyzing, testing, completed,
\* and the store leads the channel: a progress event announces a status that
\* has already been stored, and from then on the stored session, while it
\* exists, has that status or a later one, which is what GetStatus returns.
C29_StoreLeadsChannel ==
  [][\A s \in SessionIds :
       /\ \A i, j \in 1..Len(writes'[s]) :
            i <= j => StatusRank(writes'[s][i].status) <= StatusRank(writes'[s][j].status)
       /\ \A i, j \in ProgressEvents(s)' :
            i <= j => StatusRank(published'[s][i].status) <= StatusRank(published'[s][j].status)
       /\ \A i \in ProgressEvents(s)' :
            /\ published'[s][i].status \in StoredStatuses(s)'
            /\ Found(s)' => StatusRank(store'[s].status) >= StatusRank(published'[s][i].status)
       /\ (GetStatus(s) /\ Found(s))
            => \A i \in ProgressEvents(s) :
                 StatusRank(resp'.status) >= StatusRank(published[s][i].status)]_vars

C29_Witness ==
  \E s \in SessionIds :
    /\ pc[s] = "create" /\ Len(published[s]) = 3 /\ published[s][3].status = "testing"
    /\ resp.op = "status" /\ resp.sid = s /\ resp.http = 200 /\ resp.status = "testing"

\* C30: a completed review is final: no step of submit, getById, list or
\* simulateProgress, in any interleaving, changes the status of a completed
\* review or adds a finding to one of its agents.
C30_CompletedReviewIsFinal ==
  [][\A rid \in DOMAIN reviews :
       reviews[rid].status = "completed"
         => /\ reviews'[rid].status = "completed"
            /\ \A a \in Range(AgentIdsOf(rid)) : findings'[a] = findings[a]]_vars

====
